---- MODULE Spec2Model ----
(***************************************************************************)
(* Payment order and idempotent fulfillment of the notes site.            *)
(*                                                                         *)
(* The model follows the Netlify functions create-order and               *)
(* verify-payment (the revision with the Razorpay webhook and the shared  *)
(* unlockNoteForUser helper).  The Firestore collections orders,          *)
(* transactions and users are the state; every settle request that gets   *)
(* as far as unlockNoteForUser is a process that advances from one store  *)
(* write to the next, so that requests interleave where the code awaits   *)
(* a write.  The verify-payment function without the order lookup, the    *)
(* route of the same name of the Express server, the migration script and *)
(* fix-unlocked-notes write to the same store and are modelled beside     *)
(* them.                                                                  *)
(***************************************************************************)
EXTENDS Integers, Sequences, FiniteSets, Bags, TLC

\* ------------------------------------------------------------------ bounds
MaxOrders == 1
MaxPayments == 1
MaxCalls == 2
MaxLedger == 1
MaxBatches == 2
MaxVerified == 1
MaxApiPayments == 2

\* --------------------------------------------------------------- constants
AmountMin == 500
AmountMax == 5000
StatusOk == 200
StatusBadRequest == 400
StatusUnauthorized == 401
StatusForbidden == 403
StatusNotFound == 404
StatusServerError == 500
AlreadyExistsCode == 6
BatchLimit == 500
PurchaseIdChars == 20
Base64GroupBytes == 3
Base64GroupChars == 4

Users == {"u1", "u2"}
OrderIds == 1..MaxOrders
PaymentIds == 1..MaxPayments

NoUser == "nobody"
NoUrl == <<>>
NoSig == <<"no-signature">>
Forged == <<"forged-signature">>

\* Note URLs, split at "/" as String.prototype.split('/') splits them.
DriveUrl == <<"https:", "", "drive.google.com", "file", "d", "F1", "view">>
PlainUrl == <<"notes", "unit-2.pdf">>
NoteUrls == {DriveUrl, PlainUrl}
NoTitle == ""
NoteTitles == {NoTitle, "Unit 2"}
\* The request bodies sent to create-order: amount 0 and the empty values
\* stand for a field that is missing.
Amounts == {0, AmountMin - 1, AmountMin, AmountMax, AmountMax + 1}
RequestUrls == NoteUrls \cup {NoUrl}

\* ------------------------------------------------------- pure helpers
\* crypto.createHmac('sha256', secret).update(msg).digest('hex'): a keyed
\* hash is modelled as collision free, so the digest determines both the key
\* and the message.
Hmac(secret, msg) == <<"hmac-sha256", secret, msg>>

KeySecret == "RAZORPAY_KEY_SECRET"
WebhookSecretEnv == "RAZORPAY_WEBHOOK_SECRET"
\* process.env.RAZORPAY_WEBHOOK_SECRET || process.env.RAZORPAY_KEY_SECRET
WebhookKey == IF WebhookSecretEnv # "" THEN WebhookSecretEnv ELSE KeySecret

\* orderId + '|' + paymentId
ClientMessage(orderId, paymentId) == <<"orderId|paymentId", orderId, paymentId>>
GeneratedSignature(orderId, paymentId) ==
    Hmac(KeySecret, ClientMessage(orderId, paymentId))

\* The raw webhook body: event, payload.payment.entity.id and
\* payload.payment.entity.order_id, in this order.
WebhookBody(event, paymentId, orderId) == <<event, paymentId, orderId>>
ExpectedSignature(body) == Hmac(WebhookKey, body)

\* noteUrl.includes('drive.google.com/file/d/')
IncludesDrivePrefix(url) ==
    \E i \in 1..Len(url) :
        /\ i + 3 <= Len(url)
        /\ url[i] = "drive.google.com"
        /\ url[i + 1] = "file"
        /\ url[i + 2] = "d"

\* noteUrl.match(/\/file\/d\/([a-zA-Z0-9-_]+)/): the segment that follows
\* "/file/d/", when it is not empty; <<>> when nothing matches.
FileIdMatch(url) ==
    LET hits == {i \in 2..Len(url) :
                    /\ i + 2 <= Len(url)
                    /\ url[i] = "file"
                    /\ url[i + 1] = "d"
                    /\ url[i + 2] # ""}
    IN IF hits = {} THEN <<>>
       ELSE <<url[(CHOOSE i \in hits : \A j \in hits : i <= j) + 2]>>

\* noteUrl.split('/').pop()
LastSegment(url) == url[Len(url)]

NoteSlug(noteUrl) ==
    IF IncludesDrivePrefix(noteUrl)
    THEN IF FileIdMatch(noteUrl) # <<>> THEN FileIdMatch(noteUrl)[1]
         ELSE LastSegment(noteUrl)
    ELSE LastSegment(noteUrl)

\* -------------------------------------------------- document store
\* A collection is a set of documents [id, data]; the store keeps ids unique.
DocExists(coll, id) == \E d \in coll : d.id = id
DocData(coll, id) == (CHOOSE d \in coll : d.id = id).data
DocPut(coll, id, data) ==
    {d \in coll : d.id # id} \cup {[id |-> id, data |-> data]}

VARIABLES
    orders,        \* Firestore collection orders, keyed by the gateway order id
    transactions,  \* Firestore collection transactions
    unlockedNotes, \* users/{uid}.unlockedNotes: the slugs mapped to true
    minted,        \* gateway: number of order ids issued so far
    payOrder,      \* gateway: captured payment id -> order id (0: not captured)
    calls,         \* bag of the settle requests inside unlockNoteForUser
    last,          \* the response sent most recently
    verifiedPurchases, \* Firestore collection verified_purchases
    fixJob,        \* the run of fix-unlocked-notes in progress
    userDocs,      \* users/{uid}: the snapshot a get() of the document gives
    page           \* the protected page loaded in the browser

vars == <<orders, transactions, unlockedNotes, minted, payOrder, calls, last,
          verifiedPurchases, fixJob, userDocs, page>>

\* ------------------------------------------------------- protected page
\* The ids getDeviceId finds in localStorage: 'device_' and random digits.
DeviceIds == {"device_a", "device_b"}

\* Where window.location is sent: the login entry.
LoginUrl == "youtube?showLogin=true"
LogoutUrl == "youtube.html"

\* The snapshot of users/{uid}: doc.exists, and of doc.data() the keys of
\* the devices map (data.devices || {}).
MissingDoc == [exists |-> FALSE, devices |-> {}]
UserDocs ==
    {MissingDoc} \cup {[exists |-> TRUE, devices |-> ds] : ds \in SUBSET DeviceIds}

\* No page is loaded: no script state, nothing looked up.
ClosedPage ==
    [pc |-> "closed", user |-> NoUser, deviceId |-> "none",
     currentUserData |-> MissingDoc, payment |-> NoUser, outcome |-> "none",
     location |-> "none"]

\* The functions run while no protected page is visited.
NoVisit ==
    /\ userDocs = [u \in Users |-> [exists |-> TRUE, devices |-> {}]]
    /\ page = ClosedPage

\* A response: beside the status code and the flags of the body, the order id
\* of a create-order response, the purchasedNotes of a lookup, the purchases
\* of the lookup of the /api routes and the counts of a fix-unlocked-notes
\* result.
NoResponse ==
    [path |-> "none", tampered |-> FALSE, status |-> 0, success |-> FALSE,
     verified |-> FALSE, outcome |-> "none", orderId |-> 0,
     purchasedNotes |-> {}, purchases |-> {}, updatedCount |-> 0,
     alreadyVerifiedCount |-> 0, totalTransactions |-> 0]

\* No run of fix-unlocked-notes is in progress.
IdleJob ==
    [pc |-> "idle", rest |-> {}, batch |-> {}, inLoop |-> FALSE,
     updatedCount |-> 0, alreadyVerifiedCount |-> 0, totalTransactions |-> 0,
     queued |-> {}, commits |-> <<>>]

Init ==
    /\ verifiedPurchases = {}
    /\ fixJob = IdleJob
    /\ NoVisit
    /\ orders = {}
    /\ transactions = {}
    /\ unlockedNotes = [u \in Users |-> {}]
    /\ minted = 0
    /\ payOrder = [p \in PaymentIds |-> 0]
    /\ calls = EmptyBag
    /\ last = NoResponse

\* ------------------------------------------------------------ create-order
\* !amount || !noteTitle || !noteUrl, then amount < 500 || amount > 5000
ValidOrderParamsExclusive(amount, noteTitle, noteUrl) ==
    /\ ~(amount = 0 \/ noteTitle = NoTitle \/ noteUrl = NoUrl)
    /\ ~(amount <= AmountMin \/ amount >= AmountMax)

ValidOrderParamsUnbounded(amount, noteTitle, noteUrl) == TRUE

ValidOrderParams(amount, noteTitle, noteUrl) ==
    /\ ~(amount = 0 \/ noteTitle = NoTitle \/ noteUrl = NoUrl)
    /\ ~(amount = 0 \/ amount < AmountMin \/ amount > AmountMax)

OrderRecordUnbound(orderId, uid, noteUrl, amount) ==
    [orderId |-> orderId, userId |-> NoUser, noteUrl |-> NoUrl,
     amount |-> amount, currency |-> "INR", status |-> "paid"]

OrderRecord(orderId, uid, noteUrl, amount) ==
    [orderId |-> orderId, userId |-> uid, noteUrl |-> noteUrl,
     amount |-> amount, currency |-> "INR", status |-> "created"]

ReissuedOrderId(issued) == issued

\* order.id of razorpay.orders.create: the gateway never issues an id twice.
GatewayOrderId(issued) == issued + 1

\* The Authorization headers that verifyFirebaseToken turns away: none, one
\* that does not start with 'Bearer ', and a token verifyIdToken rejects.
NoHeader == <<>>
BadToken == "rejected-token"
RefusedHeaders == {NoHeader, <<"Basic", "u1">>, <<"Bearer", BadToken>>}

\* verifyFirebaseToken: the decoded uid, or the message of the Error thrown.
VerifyFirebaseToken(authHeader) ==
    IF authHeader = NoHeader \/ authHeader[1] # "Bearer"
    THEN [ok |-> FALSE, uid |-> NoUser,
          message |-> "Missing or invalid authorization header"]
    ELSE IF authHeader[2] \in Users
         THEN [ok |-> TRUE, uid |-> authHeader[2], message |-> ""]
         ELSE [ok |-> FALSE, uid |-> NoUser,
               message |-> "Invalid authentication token"]

\* error.message.includes('authentication'): of the messages thrown only
\* 'Invalid authentication token' holds the word.
IncludesAuthentication(message) == message = "Invalid authentication token"

\* statusCode of the catch block of create-order
CreateOrderCatchStatus(message) ==
    IF message # "" /\ IncludesAuthentication(message)
    THEN StatusUnauthorized ELSE StatusBadRequest

\* The response of create-order.
OrderResponse(status, success, outcome) ==
    [NoResponse EXCEPT !.path = "create-order", !.status = status,
                       !.success = success, !.outcome = outcome]

\* The success body: success: true and orderId: order.id.
OrderDisclosed(orderId) ==
    [OrderResponse(StatusOk, TRUE, "OrderCreated") EXCEPT !.orderId = orderId]

OrderFailureDisclosed(orderId, message) == OrderDisclosed(orderId)

\* The body of the catch block: success: false and the error, no order id.
OrderFailure(orderId, message) ==
    OrderResponse(CreateOrderCatchStatus(message), FALSE, "StoreWriteError")

\* The token is refused: the catch block answers before the body is read.
CreateOrderRefused(authHeader) ==
    /\ ~VerifyFirebaseToken(authHeader).ok
    /\ last' = OrderResponse(
                   CreateOrderCatchStatus(VerifyFirebaseToken(authHeader).message),
                   FALSE, "AuthenticationError")
    /\ UNCHANGED <<orders, transactions, unlockedNotes, minted, payOrder, calls>>
    /\ UNCHANGED <<verifiedPurchases, fixJob, userDocs, page>>

\* razorpay.orders.create issues the next order id; the order is then stored
\* under that id.
CreateOrder(uid, amount, noteTitle, noteUrl) ==
    /\ VerifyFirebaseToken(<<"Bearer", uid>>).ok
    /\ ValidOrderParams(amount, noteTitle, noteUrl)
    /\ minted < MaxOrders
    /\ minted' = minted + 1
    /\ orders' = DocPut(orders, GatewayOrderId(minted),
                        OrderRecord(GatewayOrderId(minted), uid, noteUrl, amount))
    /\ last' = OrderDisclosed(GatewayOrderId(minted))
    /\ UNCHANGED <<transactions, unlockedNotes, payOrder, calls>>
    /\ UNCHANGED <<verifiedPurchases, fixJob, userDocs, page>>

\* A request that fails validation returns 400 before the gateway is called.
CreateOrderRejected(uid, amount, noteTitle, noteUrl) ==
    /\ VerifyFirebaseToken(<<"Bearer", uid>>).ok
    /\ ~ValidOrderParams(amount, noteTitle, noteUrl)
    /\ last' = OrderResponse(StatusBadRequest, FALSE, "ValidationError")
    /\ UNCHANGED <<orders, transactions, unlockedNotes, minted, payOrder, calls>>
    /\ UNCHANGED <<verifiedPurchases, fixJob, userDocs, page>>

\* The gateway issued the order but the Firestore write failed: the catch
\* block answers and the order is never stored.
CreateOrderStoreFault(uid, amount, noteTitle, noteUrl) ==
    /\ VerifyFirebaseToken(<<"Bearer", uid>>).ok
    /\ ValidOrderParams(amount, noteTitle, noteUrl)
    /\ minted < MaxOrders
    /\ minted' = minted + 1
    /\ last' = OrderFailure(GatewayOrderId(minted), "store unavailable")
    /\ UNCHANGED <<orders, transactions, unlockedNotes, payOrder, calls>>
    /\ UNCHANGED <<verifiedPurchases, fixJob, userDocs, page>>

\* ------------------------------------------------------------ the gateway
\* A payment is captured at the gateway for an order the gateway issued;
\* payment ids are issued in turn.
CapturePayment(p, o) ==
    /\ o <= minted
    /\ payOrder[p] = 0
    /\ \A q \in PaymentIds : q < p => payOrder[q] # 0
    /\ payOrder' = [payOrder EXCEPT ![p] = o]
    /\ UNCHANGED <<orders, transactions, unlockedNotes, minted, calls, last>>
    /\ UNCHANGED <<verifiedPurchases, fixJob, userDocs, page>>

\* The signatures checkout has handed to clients so far.
IssuedSignatures ==
    {GeneratedSignature(payOrder[p], p) : p \in {q \in PaymentIds : payOrder[q] # 0}}

\* ------------------------------------------------ verify-payment: helpers
EventTypes == {"payment.captured", "order.paid"}

\* statusCode of the outer catch of the frontend handler
CatchStatus(message) ==
    IF message # "" /\ IncludesAuthentication(message)
    THEN StatusUnauthorized ELSE StatusServerError

\* event.headers['x-razorpay-signature'] || event.headers['X-Razorpay-Signature']
IsWebhook(xsig) == xsig # NoSig

IsSignatureValidUnchecked(generated, signature) == TRUE

\* generatedSignature === signature
IsSignatureValid(generated, signature) == generated = signature

WebhookSignatureNeverMismatch(webhookSignature, expected) == FALSE

\* webhookSignature !== expectedSignature
WebhookSignatureMismatch(webhookSignature, expected) ==
    webhookSignature # expected

HandledEventAny(eventType) == TRUE

\* event_type === 'payment.captured'
HandledEvent(eventType) == eventType = "payment.captured"

\* statusCode returned for a webhook whose signature does not match
WebhookMismatchStatus == StatusBadRequest

UserNeverMismatch(orderUserId, authenticatedUserId) == FALSE

\* orderData.userId !== authenticatedUserId
UserMismatch(orderUserId, authenticatedUserId) ==
    orderUserId # authenticatedUserId

\* admin.firestore.FieldValue.serverTimestamp(): the time of the store,
\* counted in the orders issued and the ledger documents written so far.
ServerTimestamp == minted + Cardinality(transactions)

TransactionData(userId, paymentId, orderId, noteUrl, timestamp) ==
    [userId |-> userId, paymentId |-> paymentId, orderId |-> orderId,
     noteUrl |-> noteUrl, timestamp |-> timestamp, status |-> "completed",
     verified |-> TRUE]

\* collection.add(data): a document under a fresh id, whatever exists.
TransactionAdd(txs, paymentId, data) ==
    [code |-> 0,
     docs |-> txs \cup {[id |-> 0 - (Cardinality(txs) + 1), data |-> data]}]

\* doc(paymentId).set(data): writes the document whether or not it exists.
TransactionSet(txs, paymentId, data) ==
    [code |-> 0, docs |-> DocPut(txs, paymentId, data)]

\* db.collection('transactions').doc(paymentId).create(data): atomic; a
\* document under that id makes it fail with code 6 and write nothing.
TransactionCreate(txs, paymentId, data) ==
    IF DocExists(txs, paymentId)
    THEN [code |-> AlreadyExistsCode, docs |-> txs]
    ELSE [code |-> 0, docs |-> txs \cup {[id |-> paymentId, data |-> data]}]

RethrowsOnCode(code) == FALSE

\* catch (error) { if (error.code === 6) return; throw error; }
SkipsOnCode(code) == code = AlreadyExistsCode

ProceedsAlways(code) == TRUE

\* The statements after the try block run only when create() resolved.
ProceedsToGrant(code) == code = 0

\* userRef.set({unlockedNotes: {[noteSlug]: true}}, {merge: true})
MergeUnlocked(old, noteSlug) == old \cup {noteSlug}

\* A response: the status code, the success and verified flags of the body
\* (the webhook's status: 'success' counts as success), and the return
\* statement that sent it.  tampered records whether the signature of the
\* request differs from the keyed hash of what it signs.
Response(call, status, success, verified, outcome) ==
    [NoResponse EXCEPT !.path = call.path, !.tampered = call.tampered,
                       !.status = status, !.success = success,
                       !.verified = verified, !.outcome = outcome]

\* The responses answered while the order is looked up and checked: the
\* status code, the flags of the body and the return statement.
LookupResponseAcknowledged(call, status, success, verified, outcome) ==
    [NoResponse EXCEPT !.path = call.path, !.tampered = call.tampered,
                       !.status = StatusOk, !.success = success,
                       !.verified = verified, !.outcome = outcome]

LookupResponse(call, status, success, verified, outcome) ==
    [NoResponse EXCEPT !.path = call.path, !.tampered = call.tampered,
                       !.status = status, !.success = success,
                       !.verified = verified, !.outcome = outcome]

\* The response to a request turned away before its order was looked up.
Reject(path, tampered, status, outcome) ==
    [NoResponse EXCEPT !.path = path, !.tampered = tampered,
                       !.status = status, !.outcome = outcome]

\* The responses of the two handlers once unlockNoteForUser returned or threw.
Fulfilled(call, outcome) == Response(call, StatusOk, TRUE, call.path = "client", outcome)
FulfillmentFailed(call) ==
    Response(call, StatusServerError, FALSE, call.path = "client", "PersistenceError")

InFlight == BagToSet(calls)
Enter(call) == calls' = calls (+) SetToBag({call})
Leave(call) == calls' = calls (-) SetToBag({call})
Advance(call, next) == calls' = (calls (-) SetToBag({call})) (+) SetToBag({next})

\* ------------------------------------- verify-payment: frontend request
\* Authentication, parameter check, signature check, order lookup and owner
\* check.  The order document of an issued id never changes, so the lookup
\* is taken in the same step as the checks before it.  storeFails: the
\* lookup rejects.
ClientRequest(authHeader, paymentId, orderId, signature, storeFails) ==
    /\ ~IsWebhook(NoSig)
    /\ LET auth == VerifyFirebaseToken(authHeader)
           tampered == signature # GeneratedSignature(orderId, paymentId)
           call == [pc |-> "create", path |-> "client", uid |-> auth.uid,
                    paymentId |-> paymentId, orderId |-> orderId,
                    tampered |-> tampered, userId |-> auth.uid,
                    noteUrl |-> NoUrl]
       IN IF ~auth.ok
          THEN /\ last' = Reject("client", tampered, CatchStatus(auth.message),
                                 "AuthenticationError")
               /\ UNCHANGED calls
          ELSE IF signature = NoSig
          THEN /\ last' = Reject("client", tampered, StatusBadRequest,
                                 "MissingParams")
               /\ UNCHANGED calls
          ELSE IF ~IsSignatureValid(GeneratedSignature(orderId, paymentId),
                                    signature)
          THEN /\ last' = Reject("client", tampered, StatusBadRequest,
                                 "SignatureInvalid")
               /\ UNCHANGED calls
          ELSE IF storeFails
          THEN /\ last' = Response(call, CatchStatus("store unavailable"),
                                   FALSE, FALSE, "StoreReadError")
               /\ UNCHANGED calls
          ELSE IF ~DocExists(orders, orderId)
          THEN /\ last' = LookupResponse(call, StatusNotFound, FALSE, TRUE,
                                   "OrderNotFound")
               /\ UNCHANGED calls
          ELSE LET orderData == DocData(orders, orderId)
               IN IF UserMismatch(orderData.userId, auth.uid)
                  THEN /\ last' = LookupResponse(call, StatusForbidden, FALSE, TRUE,
                                           "UserMismatch")
                       /\ UNCHANGED calls
                  ELSE /\ BagCardinality(calls) < MaxCalls
                       /\ Enter([call EXCEPT !.noteUrl = orderData.noteUrl])
                       /\ UNCHANGED last
    /\ UNCHANGED <<orders, transactions, unlockedNotes, minted, payOrder>>
    /\ UNCHANGED <<verifiedPurchases, fixJob, userDocs, page>>

\* ------------------------------------------- verify-payment: webhook
WebhookRequest(event, paymentId, orderId, webhookSignature, storeFails) ==
    /\ IsWebhook(webhookSignature)
    /\ LET body == WebhookBody(event, paymentId, orderId)
           tampered == webhookSignature # Hmac(WebhookKey, body)
           call == [pc |-> "create", path |-> "webhook", uid |-> NoUser,
                    paymentId |-> paymentId, orderId |-> orderId,
                    tampered |-> tampered, userId |-> NoUser,
                    noteUrl |-> NoUrl]
       IN IF WebhookSignatureMismatch(webhookSignature, ExpectedSignature(body))
          THEN /\ last' = Reject("webhook", tampered, WebhookMismatchStatus,
                                 "SignatureInvalid")
               /\ UNCHANGED calls
          ELSE IF ~HandledEvent(event)
          THEN /\ last' = Reject("webhook", tampered, StatusOk, "OtherEvent")
               /\ UNCHANGED calls
          ELSE IF storeFails
          THEN /\ last' = Response(call, StatusServerError, FALSE, FALSE,
                                   "StoreReadError")
               /\ UNCHANGED calls
          ELSE IF ~DocExists(orders, orderId)
          THEN /\ last' = LookupResponse(call, StatusOk, FALSE, FALSE, "OrderNotFound")
               /\ UNCHANGED calls
          ELSE LET orderData == DocData(orders, orderId)
               IN /\ BagCardinality(calls) < MaxCalls
                  /\ Enter([call EXCEPT !.userId = orderData.userId,
                                        !.noteUrl = orderData.noteUrl])
                  /\ UNCHANGED last
    /\ UNCHANGED <<orders, transactions, unlockedNotes, minted, payOrder>>
    /\ UNCHANGED <<verifiedPurchases, fixJob, userDocs, page>>

\* ----------------------------------------------- verify-payment: routing
\* payload.event of a body that has no event field
NoEvent == "undefined"

\* The frontend's confirmation (razorpay_payment_id, razorpay_order_id and
\* razorpay_signature in the body, the Bearer token in the Authorization
\* header) sent with the header x-razorpay-signature set to xsig, NoSig when
\* the header is absent.  The handler takes the webhook branch whenever the
\* header is there, and reads the body as a gateway event.
ConfirmationRequest(authHeader, paymentId, orderId, signature, xsig) ==
    IF IsWebhook(xsig)
    THEN WebhookRequest(NoEvent, paymentId, orderId, xsig, FALSE)
    ELSE ClientRequest(authHeader, paymentId, orderId, signature, FALSE)

\* ------------------------------------------------- unlockNoteForUser
\* transactionRef.create(...) and its catch block; on ALREADY_EXISTS the
\* helper returns and the handler sends its success response.
UnlockCreate(call) ==
    /\ call \in InFlight
    /\ call.pc = "create"
    /\ LET r == TransactionCreate(transactions, call.paymentId,
                    TransactionData(call.userId, call.paymentId,
                                    call.orderId, call.noteUrl,
                                    ServerTimestamp))
       IN /\ transactions' = r.docs
          /\ IF ProceedsToGrant(r.code)
             THEN /\ Advance(call, [call EXCEPT !.pc = "setUser"])
                  /\ UNCHANGED last
             ELSE /\ Leave(call)
                  /\ last' = IF SkipsOnCode(r.code)
                             THEN Fulfilled(call, "AlreadyFulfilled")
                             ELSE FulfillmentFailed(call)
    /\ UNCHANGED <<orders, unlockedNotes, minted, payOrder>>
    /\ UNCHANGED <<verifiedPurchases, fixJob, userDocs, page>>

\* userRef.set(..., {merge: true}) and the success response of the handler.
UnlockSetUser(call) ==
    /\ call \in InFlight
    /\ call.pc = "setUser"
    /\ unlockedNotes' = [unlockedNotes EXCEPT ![call.userId] =
                            MergeUnlocked(@, NoteSlug(call.noteUrl))]
    /\ Leave(call)
    /\ last' = Fulfilled(call, "Fulfilled")
    /\ UNCHANGED <<orders, transactions, minted, payOrder>>
    /\ UNCHANGED <<verifiedPurchases, fixJob, userDocs, page>>

\* ---------------------------------------------------- store failures
\* transactionRef.create rejects with an error other than ALREADY_EXISTS,
\* or userRef.set rejects: unlockNoteForUser throws, the frontend handler
\* answers 500 with verified: true, the webhook handler's catch answers 500.
UnlockWriteFault(call) ==
    /\ call \in InFlight
    /\ Leave(call)
    /\ last' = FulfillmentFailed(call)
    /\ UNCHANGED <<orders, transactions, unlockedNotes, minted, payOrder>>
    /\ UNCHANGED <<verifiedPurchases, fixJob, userDocs, page>>

\* ------------------------------- verify-payment without the order lookup
\* The verify-payment function as deployed under netlify/functions and the
\* route of the same name of the Express server: the user is the caller, the
\* note URL is the one of the request body, and the transaction is added
\* under an id the store generates.
PlainReleases == {"function", "server"}

\* db.collection('transactions').add(data)
CollectionAdd(txs, data) ==
    txs \cup {[id |-> 0 - (Cardinality(txs) + 1), data |-> data]}

\* The function extracts the Drive file id; the server takes the last
\* segment of every URL.
PlainNoteSlug(release, noteUrl) ==
    IF release = "server" THEN LastSegment(noteUrl) ELSE NoteSlug(noteUrl)

\* catch (firestoreError): the function returns 500 with verified: true; the
\* server logs the error and continues with the success response.
PlainWriteErrorResponse(call) ==
    IF call.path = "server"
    THEN Response(call, StatusOk, TRUE, TRUE, "ErrorSwallowed")
    ELSE Response(call, StatusServerError, FALSE, TRUE, "PersistenceError")

\* noteUrl of the transaction and of the unlock: the one of the request body.
PlainBodyUrl(call, bodyUrl) == [call EXCEPT !.noteUrl = bodyUrl]

PlainVerifyRequest(release, authHeader, paymentId, orderId, signature, noteUrl) ==
    /\ LET auth == VerifyFirebaseToken(authHeader)
           tampered == signature # GeneratedSignature(orderId, paymentId)
           call == [pc |-> "add", path |-> release, uid |-> auth.uid,
                    paymentId |-> paymentId, orderId |-> orderId,
                    tampered |-> tampered, userId |-> auth.uid,
                    noteUrl |-> NoUrl]
       IN IF ~auth.ok
          THEN /\ last' = Reject(release, tampered, CatchStatus(auth.message),
                                 "AuthenticationError")
               /\ UNCHANGED calls
          ELSE IF signature = NoSig \/ noteUrl = NoUrl
          THEN /\ last' = Reject(release, tampered, StatusBadRequest,
                                 "MissingParams")
               /\ UNCHANGED calls
          ELSE IF ~IsSignatureValid(GeneratedSignature(orderId, paymentId),
                                    signature)
          THEN /\ last' = Reject(release, tampered, StatusBadRequest,
                                 "SignatureInvalid")
               /\ UNCHANGED calls
          ELSE /\ BagCardinality(calls) < MaxCalls
               /\ Cardinality(transactions) + BagCardinality(calls) < MaxLedger
               /\ Enter(PlainBodyUrl(call, noteUrl))
               /\ UNCHANGED last
    /\ UNCHANGED <<orders, transactions, unlockedNotes, minted, payOrder>>
    /\ UNCHANGED <<verifiedPurchases, fixJob, userDocs, page>>

\* await db.collection('transactions').add({...})
PlainAdd(call) ==
    /\ call \in InFlight
    /\ call.pc = "add"
    /\ transactions' = CollectionAdd(transactions,
                           TransactionData(call.userId, call.paymentId,
                                           call.orderId, call.noteUrl,
                                           ServerTimestamp))
    /\ Advance(call, [call EXCEPT !.pc = "set"])
    /\ UNCHANGED <<orders, unlockedNotes, minted, payOrder, last>>
    /\ UNCHANGED <<verifiedPurchases, fixJob, userDocs, page>>

\* await userRef.set({unlockedNotes: {[noteSlug]: true}}, {merge: true}) and
\* the success response.
PlainSetUser(call) ==
    /\ call \in InFlight
    /\ call.pc = "set"
    /\ unlockedNotes' = [unlockedNotes EXCEPT ![call.userId] =
                            MergeUnlocked(@, PlainNoteSlug(call.path, call.noteUrl))]
    /\ Leave(call)
    /\ last' = Response(call, StatusOk, TRUE, TRUE, "Fulfilled")
    /\ UNCHANGED <<orders, transactions, minted, payOrder>>
    /\ UNCHANGED <<verifiedPurchases, fixJob, userDocs, page>>

\* add() or set() rejects.
PlainWriteFault(call) ==
    /\ call \in InFlight
    /\ call.pc \in {"add", "set"}
    /\ Leave(call)
    /\ last' = PlainWriteErrorResponse(call)
    /\ UNCHANGED <<orders, transactions, unlockedNotes, minted, payOrder>>
    /\ UNCHANGED <<verifiedPurchases, fixJob, userDocs, page>>

\* ---------------------------------------------------- check-purchases
\* notes-data.json: the catalogue of the site, from note id to the URL of
\* the file.
NoteIds == {"unit-1", "unit-2", "free-intro"}
NotesData ==
    [id \in NoteIds |->
        IF id = "unit-1"
        THEN <<"https:", "", "drive.google.com", "file", "d", "F0", "view">>
        ELSE IF id = "unit-2"
        THEN DriveUrl
        ELSE <<"https:", "", "drive.google.com", "file", "d", "F9", "view">>]

\* where userId == uid, status == 'completed', verified == true
VerifiedTransactionsOf(txs, uid) ==
    {d \in txs : /\ d.data.userId = uid
                 /\ d.data.status = "completed"
                 /\ d.data.verified = TRUE}

\* purchasedFileIds: the file id of every queried noteUrl that has one.
PurchasedFileIds(docs) ==
    {FileIdMatch(d.data.noteUrl)[1] :
        d \in {e \in docs : /\ e.data.noteUrl # NoUrl
                            /\ FileIdMatch(e.data.noteUrl) # <<>>}}

\* ownedIds: the note ids of the catalogue whose file was purchased.
OwnedIds(fileIds) ==
    {id \in NoteIds : /\ FileIdMatch(NotesData[id]) # <<>>
                      /\ FileIdMatch(NotesData[id])[1] \in fileIds}

\* statusCode of the catch block of check-purchases
CheckPurchasesCatchStatus(message) ==
    IF message # "" /\ IncludesAuthentication(message)
    THEN StatusUnauthorized ELSE StatusServerError

\* The success body: success: true and purchasedNotes: ownedIds.
PurchasesResponse(path, ownedIds) ==
    [NoResponse EXCEPT !.path = path, !.status = StatusOk, !.success = TRUE,
                       !.outcome = "Purchases", !.purchasedNotes = ownedIds]

CheckPurchasesAndUnlock(authHeader) ==
    /\ VerifyFirebaseToken(authHeader).ok
    /\ unlockedNotes' =
           [unlockedNotes EXCEPT ![VerifyFirebaseToken(authHeader).uid] =
               @ \cup PurchasedFileIds(VerifiedTransactionsOf(transactions,
                                           VerifyFirebaseToken(authHeader).uid))]
    /\ last' = PurchasesResponse("check-purchases", {})
    /\ UNCHANGED <<orders, transactions, minted, payOrder, calls>>
    /\ UNCHANGED <<verifiedPurchases, fixJob, userDocs, page>>

\* check-purchases: the token, the query, the two loops and the response.
CheckPurchases(authHeader) ==
    /\ LET auth == VerifyFirebaseToken(authHeader)
       IN last' =
              IF ~auth.ok
              THEN Reject("check-purchases", FALSE,
                          CheckPurchasesCatchStatus(auth.message),
                          "AuthenticationError")
              ELSE PurchasesResponse("check-purchases",
                       OwnedIds(PurchasedFileIds(
                           VerifiedTransactionsOf(transactions, auth.uid))))
    /\ UNCHANGED <<orders, transactions, unlockedNotes, minted, payOrder, calls>>
    /\ UNCHANGED <<verifiedPurchases, fixJob, userDocs, page>>

\* ------------------------------------------------- the /api routes
\* The note URLs sent to /api/verify-payment, character by character: two
\* files on Google Drive and a file of the site.
ApiDrivePrefix ==
    <<"h", "t", "t", "p", "s", ":", "/", "/", "d", "r", "i", "v", "e",
      ".", "g", "o", "o", "g", "l", "e", ".", "c", "o", "m", "/", "f",
      "i", "l", "e", "/", "d", "/">>
ApiDriveUrl0 == ApiDrivePrefix \o <<"F", "0", "/", "v", "i", "e", "w">>
ApiDriveUrl1 == ApiDrivePrefix \o <<"F", "1", "/", "v", "i", "e", "w">>
ApiSiteUrl ==
    <<"/", "n", "o", "t", "e", "s", "/", "u", "n", "i", "t", "-", "2",
      ".", "p", "d", "f">>
ApiUrls == {ApiDriveUrl0, ApiDriveUrl1, ApiSiteUrl}
ApiRequestUrls == ApiUrls \cup {NoUrl}

\* Buffer.from(text).toString('base64'): every three bytes become four
\* characters, and so do the one or two bytes left at the end, padded with
\* '='.  A group of characters is written as the bytes it encodes.
Base64(text) ==
    [g \in 1..((Len(text) + Base64GroupBytes - 1) \div Base64GroupBytes) |->
        SubSeq(text, (g - 1) * Base64GroupBytes + 1,
               IF g * Base64GroupBytes <= Len(text)
               THEN g * Base64GroupBytes ELSE Len(text))]

\* .substring(0, 20): the first five groups of four characters.
Substring20(encoded) ==
    SubSeq(encoded, 1,
           IF Len(encoded) <= PurchaseIdChars \div Base64GroupChars
           THEN Len(encoded) ELSE PurchaseIdChars \div Base64GroupChars)

\* `${authenticatedUserId}_${base64(noteUrl).substring(0, 20)}`
PurchaseId(userId, noteUrl) == <<userId, Substring20(Base64(noteUrl))>>

\* purchaseData
PurchaseData(userId, noteUrl, paymentId, orderId, timestamp) ==
    [userId |-> userId, noteUrl |-> noteUrl, paymentId |-> paymentId,
     orderId |-> orderId, timestamp |-> timestamp, verified |-> TRUE]

\* doc(purchaseId).set(purchaseData, {merge: true}): every field of
\* purchaseData replaces the field of the document under that id.
PurchaseSet(coll, purchaseId, data) == DocPut(coll, purchaseId, data)

\* res.writeHead(error.message.includes('authentication') ? 401 : 400)
ApiCatchStatus(message) ==
    IF IncludesAuthentication(message)
    THEN StatusUnauthorized ELSE StatusBadRequest

\* POST /api/verify-payment.  storeFails: the write rejects.
ApiVerifyPayment(authHeader, paymentId, orderId, signature, noteUrl, storeFails) ==
    /\ LET auth == VerifyFirebaseToken(authHeader)
           tampered == signature # GeneratedSignature(orderId, paymentId)
       IN IF ~auth.ok
          THEN /\ last' = Reject("api/verify-payment", tampered,
                                 ApiCatchStatus(auth.message),
                                 "AuthenticationError")
               /\ UNCHANGED verifiedPurchases
          ELSE IF signature = NoSig \/ noteUrl = NoUrl
          THEN /\ last' = Reject("api/verify-payment", tampered,
                                 StatusBadRequest, "MissingParams")
               /\ UNCHANGED verifiedPurchases
          ELSE IF ~IsSignatureValid(GeneratedSignature(orderId, paymentId),
                                    signature)
          THEN /\ last' = Reject("api/verify-payment", tampered,
                                 StatusBadRequest, "SignatureInvalid")
               /\ UNCHANGED verifiedPurchases
          ELSE IF storeFails
          THEN /\ last' = Reject("api/verify-payment", tampered,
                                 ApiCatchStatus("store unavailable"),
                                 "PersistenceError")
               /\ UNCHANGED verifiedPurchases
          ELSE /\ verifiedPurchases' =
                      PurchaseSet(verifiedPurchases,
                                  PurchaseId(auth.uid, noteUrl),
                                  PurchaseData(auth.uid, noteUrl, paymentId,
                                               orderId, ServerTimestamp))
               /\ last' = [NoResponse EXCEPT
                              !.path = "api/verify-payment",
                              !.status = StatusOk, !.success = TRUE,
                              !.verified = TRUE, !.outcome = "Recorded"]
    /\ UNCHANGED <<orders, transactions, unlockedNotes, minted, payOrder, calls,
                   fixJob, userDocs, page>>

\* userPurchases: the noteUrl of every queried purchase
UserPurchases(coll, userId) ==
    {d.data.noteUrl :
        d \in {e \in coll : e.data.userId = userId /\ e.data.verified = TRUE}}

\* GET /api/check-purchases
ApiCheckPurchases(authHeader) ==
    /\ LET auth == VerifyFirebaseToken(authHeader)
       IN last' =
              IF ~auth.ok
              THEN Reject("api/check-purchases", FALSE,
                          ApiCatchStatus(auth.message), "AuthenticationError")
              ELSE [NoResponse EXCEPT
                       !.path = "api/check-purchases",
                       !.status = StatusOk, !.success = TRUE,
                       !.outcome = "Purchases",
                       !.purchases = UserPurchases(verifiedPurchases, auth.uid)]
    /\ UNCHANGED <<orders, transactions, unlockedNotes, minted, payOrder, calls,
                   verifiedPurchases, fixJob, userDocs, page>>

\* --------------------------------------------------------- secure-notes
\* The ids of the catalogue that start with 'syllabus-' or 'free-'.
FreeNoteIds == {"free-intro"}
\* The note ids of the requests: those of the catalogue and one it lacks.
RequestNoteIds == NoteIds \cup {"unknown"}

\* noteId.startsWith('syllabus-') || noteId.startsWith('free-')
IsFree(noteId) == noteId \in FreeNoteIds

\* The response of the access check.
AccessResponse(path, status, outcome) ==
    [NoResponse EXCEPT !.path = path, !.status = status,
                       !.success = (status = StatusOk), !.outcome = outcome]

\* The secure-notes function: the key it reads is the Drive file id of the
\* URL the catalogue has for noteId.
SecureNotesFunction(authHeader, noteId) ==
    /\ last' =
           IF authHeader = NoHeader \/ authHeader[1] # "Bearer"
           THEN AccessResponse("secure-notes", StatusUnauthorized, "MissingToken")
           ELSE IF authHeader[2] \notin Users
           THEN AccessResponse("secure-notes", StatusServerError, "TokenError")
           ELSE IF noteId \notin DOMAIN NotesData
           THEN AccessResponse("secure-notes", StatusNotFound, "NoteNotFound")
           ELSE IF FileIdMatch(NotesData[noteId]) = <<>>
           THEN AccessResponse("secure-notes", StatusServerError, "InvalidConfig")
           ELSE IF FileIdMatch(NotesData[noteId])[1] \notin unlockedNotes[authHeader[2]]
           THEN AccessResponse("secure-notes", StatusForbidden, "NotPurchased")
           ELSE AccessResponse("secure-notes", StatusOk, "Access")
    /\ UNCHANGED <<orders, transactions, unlockedNotes, minted, payOrder, calls,
                   verifiedPurchases, fixJob, userDocs, page>>

\* The route /secure-notes/:noteId of the server: the key it reads is the
\* note id itself.
SecureNotesServer(authHeader, noteId) ==
    /\ LET auth == VerifyFirebaseToken(authHeader)
       IN last' =
              IF ~auth.ok
              THEN AccessResponse("server/secure-notes",
                                  CatchStatus(auth.message), "AuthenticationError")
              ELSE IF noteId \notin DOMAIN NotesData
              THEN AccessResponse("server/secure-notes", StatusNotFound,
                                  "NoteNotFound")
              ELSE IF ~IsFree(noteId) /\ noteId \notin unlockedNotes[auth.uid]
              THEN AccessResponse("server/secure-notes", StatusForbidden,
                                  "NotUnlocked")
              ELSE IF FileIdMatch(NotesData[noteId]) = <<>>
              THEN AccessResponse("server/secure-notes", StatusBadRequest,
                                  "InvalidUrl")
              ELSE AccessResponse("server/secure-notes", StatusOk, "Access")
    /\ UNCHANGED <<orders, transactions, unlockedNotes, minted, payOrder, calls,
                   verifiedPurchases, fixJob, userDocs, page>>

\* ------------------------------------------------------- maintenance
\* The documents a 'completed' query returned: documents are never removed,
\* so what a query returned earlier is a subset of the collection now.
CompletedSnapshots ==
    {seen \in SUBSET transactions : \A d \in seen : d.data.status = "completed"}

\* extractNoteSlug of migrate-notes.js
ExtractNoteSlug(noteUrl) ==
    IF IncludesDrivePrefix(noteUrl)
    THEN IF FileIdMatch(noteUrl) # <<>> THEN FileIdMatch(noteUrl)[1]
         ELSE LastSegment(noteUrl)
    ELSE LastSegment(noteUrl)

\* The unlockedNotes object built for userId from the queried transactions.
MigratedNotes(seen, userId) ==
    {ExtractNoteSlug(d.data.noteUrl) :
        d \in {e \in seen : e.data.userId = userId /\ e.data.noteUrl # NoUrl}}

MigratedNotesReplace(old, add) == add

\* userRef.set({unlockedNotes: unlockedNotes}, {merge: true})
MergeMigrated(old, add) == old \cup add

\* migrateExistingPurchases: one pass of the loop over the users, for a user
\* who has transactions in the query result.
MigrateUser(seen, userId) ==
    /\ seen \in CompletedSnapshots
    /\ userId # NoUser
    /\ MigratedNotes(seen, userId) # {}
    /\ unlockedNotes' = [unlockedNotes EXCEPT ![userId] =
                            MergeMigrated(@, MigratedNotes(seen, userId))]
    /\ UNCHANGED <<orders, transactions, minted, payOrder, calls, last>>
    /\ UNCHANGED <<verifiedPurchases, fixJob, userDocs, page>>

\* data.verified !== true
NeedsVerifiedFlag(data) == data.verified # TRUE

\* batch.update(doc.ref, {verified: true})
SetVerified(data) == [data EXCEPT !.verified = TRUE]

\* --------------------------------------------------- fix-unlocked-notes
\* where('status', '==', 'completed').get()
CompletedTransactions(txs) == {d \in txs : d.data.status = "completed"}

BatchOverfull(batchCount) == batchCount > BatchLimit

\* batchCount >= 500
BatchFull(batchCount) == batchCount >= BatchLimit

PendingUpdatesDropped(batchCount) == FALSE

\* batchCount > 0, the guard of the commit after the loop
PendingUpdates(batchCount) == batchCount > 0

\* The for loop over the documents of the snapshot, in the order of their
\* ids, from a fresh batch up to the next await: the commit inside the loop,
\* taken at the first document that fills the batch, or the end of the
\* documents.  docs are the documents not yet looked at.
RunLoop(docs) ==
    LET needing == {d.id : d \in {e \in docs : NeedsVerifiedFlag(e.data)}}
        filling == {i \in needing :
                       BatchFull(Cardinality({j \in needing : j <= i}))}
        full == filling # {}
        stop == IF full THEN CHOOSE i \in filling : \A j \in filling : i <= j
                ELSE 0
        looked == IF full THEN {d \in docs : d.id <= stop} ELSE docs
        batch == {i \in needing : ~full \/ i <= stop}
    IN [rest |-> docs \ looked, batch |-> batch, inLoop |-> full,
        updated |-> Cardinality(batch),
        alreadyVerified |-> Cardinality(looked) - Cardinality(batch)]

\* The result object of a run and its 200 response.
FixResponse(job) ==
    [NoResponse EXCEPT !.path = "fix-unlocked-notes", !.status = StatusOk,
                       !.success = TRUE, !.outcome = "Fixed",
                       !.totalTransactions = job.totalTransactions,
                       !.updatedCount = job.updatedCount,
                       !.alreadyVerifiedCount = job.alreadyVerifiedCount]

\* The run goes on from the end of a pass of the loop: it awaits the commit
\* inside the loop, or the commit after the loop, or it returns.
FixContinue(job, pass) ==
    LET next == [job EXCEPT
                    !.rest = pass.rest,
                    !.batch = pass.batch,
                    !.inLoop = pass.inLoop,
                    !.updatedCount = @ + pass.updated,
                    !.alreadyVerifiedCount = @ + pass.alreadyVerified,
                    !.queued = @ \cup pass.batch]
    IN IF pass.inLoop \/ PendingUpdates(Cardinality(pass.batch))
       THEN /\ fixJob' = [next EXCEPT !.pc = "commit"]
            /\ UNCHANGED last
       ELSE /\ fixJob' = IdleJob
            /\ last' = FixResponse(next)

\* A run starts: the query, and the loop up to its first await.
FixQuery ==
    /\ fixJob.pc = "idle"
    /\ LET snapshot == CompletedTransactions(transactions)
       IN FixContinue([IdleJob EXCEPT
                          !.totalTransactions = Cardinality(snapshot)],
                      RunLoop(snapshot))
    /\ UNCHANGED <<orders, transactions, unlockedNotes, minted, payOrder, calls,
                   verifiedPurchases, userDocs, page>>

\* await batch.commit(): the queued updates are written together; then the
\* loop goes on with a new batch, or the run returns.
FixCommit ==
    /\ fixJob.pc = "commit"
    /\ transactions' =
           {IF d.id \in fixJob.batch
            THEN [id |-> d.id, data |-> SetVerified(d.data)] ELSE d :
               d \in transactions}
    /\ LET committed == [fixJob EXCEPT !.commits = Append(@, fixJob.batch),
                                       !.batch = {}]
       IN FixContinue(committed,
                      IF fixJob.inLoop THEN RunLoop(fixJob.rest)
                      ELSE [rest |-> {}, batch |-> {}, inLoop |-> FALSE,
                            updated |-> 0, alreadyVerified |-> 0])
    /\ UNCHANGED <<orders, unlockedNotes, minted, payOrder, calls,
                   verifiedPurchases, userDocs, page>>

\* batch.commit() rejects: nothing of the batch is written and the catch
\* block answers 500.
FixCommitFault ==
    /\ fixJob.pc = "commit"
    /\ fixJob' = IdleJob
    /\ last' = [NoResponse EXCEPT !.path = "fix-unlocked-notes",
                                  !.status = StatusServerError,
                                  !.outcome = "MigrationFailed"]
    /\ UNCHANGED <<orders, transactions, unlockedNotes, minted, payOrder, calls,
                   verifiedPurchases, userDocs, page>>

\* ------------------------------------------------------ specifications
ClientSignatures == {NoSig, Forged} \cup IssuedSignatures

\* A frontend request whose token is refused: nothing else of it is read.
RefusedClient == \E h \in RefusedHeaders : ClientRequest(h, 1, 1, Forged, FALSE)

AuthenticatedClient ==
    \E u \in Users, p \in PaymentIds, o \in OrderIds, s \in ClientSignatures :
        ClientRequest(<<"Bearer", u>>, p, o, s, FALSE)

\* The order lookup of a frontend request rejects; only a request that
\* passes the checks before the lookup gets that far.
ClientLookupFault ==
    \E u \in Users, p \in PaymentIds :
        /\ payOrder[p] # 0
        /\ ClientRequest(<<"Bearer", u>>, p, payOrder[p],
                         GeneratedSignature(payOrder[p], p), TRUE)

\* What the gateway delivers: signed events about captured payments.
GatewayDelivery ==
    \E p \in PaymentIds, event \in EventTypes :
        /\ payOrder[p] # 0
        /\ WebhookRequest(event, p, payOrder[p],
                          ExpectedSignature(WebhookBody(event, p, payOrder[p])),
                          FALSE)

\* The order lookup of a payment.captured delivery rejects.
WebhookLookupFault ==
    \E p \in PaymentIds :
        /\ payOrder[p] # 0
        /\ WebhookRequest("payment.captured", p, payOrder[p],
               ExpectedSignature(WebhookBody("payment.captured", p, payOrder[p])),
               TRUE)

\* The signatures the gateway has put on its deliveries so far.
GatewaySignatures ==
    {ExpectedSignature(WebhookBody(event, p, payOrder[p])) :
        event \in EventTypes, p \in {q \in PaymentIds : payOrder[q] # 0}}
WebhookSignatures == {Forged} \cup GatewaySignatures

\* A request with the signature header whose body the gateway did not sign.
ForgedWebhook ==
    \E event \in EventTypes, p \in PaymentIds, o \in OrderIds,
       s \in WebhookSignatures :
        /\ s # ExpectedSignature(WebhookBody(event, p, o))
        /\ WebhookRequest(event, p, o, s, FALSE)

\* create-order and the checkout of the gateway.
Storefront ==
    \/ \E h \in RefusedHeaders : CreateOrderRefused(h)
    \/ \E u \in Users, a \in Amounts, t \in NoteTitles, n \in RequestUrls :
           CreateOrder(u, a, t, n)
    \/ \E u \in Users, a \in Amounts, t \in NoteTitles, n \in RequestUrls :
           CreateOrderRejected(u, a, t, n)
    \/ \E p \in PaymentIds, o \in OrderIds : CapturePayment(p, o)

Next ==
    \/ Storefront
    \/ RefusedClient
    \/ AuthenticatedClient
    \/ GatewayDelivery
    \/ ForgedWebhook
    \/ \E call \in InFlight : UnlockCreate(call)
    \/ \E call \in InFlight : UnlockSetUser(call)

Spec == Init /\ [][Next]_vars

Fault ==
    \/ \E u \in Users, a \in Amounts, t \in NoteTitles, n \in RequestUrls :
           CreateOrderStoreFault(u, a, t, n)
    \/ ClientLookupFault
    \/ WebhookLookupFault
    \/ \E call \in InFlight : UnlockWriteFault(call)

NextWithFaults == Next \/ Fault

SpecWithFaults == Init /\ [][NextWithFaults]_vars

\* A confirmation of the frontend for a captured payment, with or without a
\* signature header the gateway did not make.
ExtraHeaders == {NoSig, Forged}

ConfirmationWithHeaders ==
    \E u \in Users, p \in PaymentIds, xsig \in ExtraHeaders :
        /\ payOrder[p] # 0
        /\ ConfirmationRequest(<<"Bearer", u>>, p, payOrder[p],
                               GeneratedSignature(payOrder[p], p), xsig)

NextRouting == ConfirmationWithHeaders \/ Next

SpecRouting == Init /\ [][NextRouting]_vars

\* The gateway delivers payment.captured for a captured payment, and
\* delivers it again as long as it is not told to stop.
Redelivery ==
    \E p \in PaymentIds :
        /\ payOrder[p] # 0
        /\ WebhookRequest("payment.captured", p, payOrder[p],
               ExpectedSignature(WebhookBody("payment.captured", p, payOrder[p])),
               FALSE)

\* userRef.set rejects.  The write is reached once per payment, by the call
\* that created the Transaction, so it fails finitely often.
SetUserFault ==
    \E call \in InFlight : call.pc = "setUser" /\ UnlockWriteFault(call)

NextRedelivery ==
    \/ Storefront
    \/ Redelivery
    \/ \E call \in InFlight : UnlockCreate(call)
    \/ \E call \in InFlight : UnlockSetUser(call)
    \/ SetUserFault

\* The gateway keeps delivering and a handler that can take its next step
\* takes it or fails.
SpecRedelivery ==
    /\ Init
    /\ [][NextRedelivery]_vars
    /\ WF_vars(Redelivery)
    /\ WF_vars(\E call \in InFlight : UnlockCreate(call))
    /\ WF_vars(\E call \in InFlight : UnlockSetUser(call))

\* The functions together with the lookup of the purchases.
Lookup ==
    \E h \in RefusedHeaders \cup {<<"Bearer", u>> : u \in Users} :
        CheckPurchases(h)

NextLookup == Next \/ Lookup

SpecLookup == Init /\ [][NextLookup]_vars

\* The payments of the /api routes: checkout hands the client the signature
\* of every pair of an order and its payment.
ApiPayments == 1..MaxApiPayments
ApiSignatures == {NoSig, Forged} \cup {GeneratedSignature(p, p) : p \in ApiPayments}

ApiRefused ==
    \E h \in RefusedHeaders :
        \/ ApiVerifyPayment(h, 1, 1, Forged, NoUrl, FALSE)
        \/ ApiCheckPurchases(h)

ApiVerify ==
    \E u \in Users, p \in ApiPayments, s \in ApiSignatures,
       n \in ApiRequestUrls, storeFails \in BOOLEAN :
        ApiVerifyPayment(<<"Bearer", u>>, p, p, s, n, storeFails)

ApiCheck == \E u \in Users : ApiCheckPurchases(<<"Bearer", u>>)

NextApi ==
    \/ ApiRefused
    \/ ApiVerify
    \/ ApiCheck

SpecApi == Init /\ [][NextApi]_vars

\* The functions together with the access checks of both releases.
AccessHeaders == RefusedHeaders \cup {<<"Bearer", u>> : u \in Users}

Access ==
    \/ \E h \in AccessHeaders, id \in RequestNoteIds : SecureNotesFunction(h, id)
    \/ \E h \in AccessHeaders, id \in RequestNoteIds : SecureNotesServer(h, id)

NextAccess == Next \/ Access

SpecAccess == Init /\ [][NextAccess]_vars

\* Requests to the verify-payment function and to the server route.
PlainRefused ==
    \E release \in PlainReleases, h \in RefusedHeaders :
        PlainVerifyRequest(release, h, 1, 1, Forged, NoUrl)

PlainAuthenticated ==
    \E release \in PlainReleases, u \in Users, p \in PaymentIds, o \in OrderIds,
       s \in ClientSignatures, n \in RequestUrls :
        PlainVerifyRequest(release, <<"Bearer", u>>, p, o, s, n)

Plain ==
    \/ PlainRefused
    \/ PlainAuthenticated
    \/ \E call \in InFlight : PlainAdd(call)
    \/ \E call \in InFlight : PlainSetUser(call)

Maintenance ==
    \/ \E seen \in CompletedSnapshots, u \in Users : MigrateUser(seen, u)
    \/ FixQuery
    \/ FixCommit

\* create-order with the verify-payment function and the server route, and
\* their store failures.
NextReleases ==
    \/ Storefront
    \/ \E u \in Users, a \in Amounts, t \in NoteTitles, n \in RequestUrls :
           CreateOrderStoreFault(u, a, t, n)
    \/ Plain
    \/ \E call \in InFlight : PlainWriteFault(call)

SpecReleases == Init /\ [][NextReleases]_vars

\* The store after one purchase of u1 made through an earlier release: the
\* function release ran beside create-order, which stored the order; the
\* server route stored no order and took the last URL segment as the key,
\* and its ledger still holds a transaction without the verified flag.
EarlierUrl == <<"https:", "", "drive.google.com", "file", "d", "F0", "view">>
EarlierOrderId == 0
EarlierPaymentId == 0

\* The ledger fix-unlocked-notes was written for: transactions recorded
\* before the verified flag existed, under ids the store generated, beside
\* some that carry the flag.
LegacyTransaction(k, verified) ==
    [id |-> 0 - k,
     data |-> [TransactionData("u1", EarlierPaymentId, EarlierOrderId,
                               EarlierUrl, 0) EXCEPT !.verified = verified]]

LegacyLedger(unverified, verified) ==
    {LegacyTransaction(k, FALSE) : k \in 1..unverified}
        \cup {LegacyTransaction(unverified + k, TRUE) : k \in 1..verified}

InitAfterRelease(release) ==
    /\ verifiedPurchases = {}
    /\ fixJob = IdleJob
    /\ NoVisit
    /\ orders = IF release = "function"
                THEN DocPut({}, EarlierOrderId,
                            OrderRecord(EarlierOrderId, "u1", EarlierUrl, AmountMin))
                ELSE {}
    /\ transactions =
           CollectionAdd(LegacyLedger(IF release = "server" THEN 1 ELSE 0, 0),
                         TransactionData("u1", EarlierPaymentId,
                                         EarlierOrderId, EarlierUrl, 0))
    /\ unlockedNotes =
           [u \in Users |->
               IF u = "u1"
               THEN MergeUnlocked({}, PlainNoteSlug(release, EarlierUrl))
               ELSE {}]
    /\ minted = 0
    /\ payOrder = [p \in PaymentIds |-> 0]
    /\ calls = EmptyBag
    /\ last = NoResponse

InitMaintenance == \E release \in PlainReleases : InitAfterRelease(release)

\* The functions together with the migration script and fix-unlocked-notes.
NextMaintenance == Next \/ Maintenance

SpecMaintenance == InitMaintenance /\ [][NextMaintenance]_vars

\* Ledgers whose unverified transactions fill no batch, a part of one,
\* exactly a number of batches, and one document more or less than that.
FixSizes ==
    {n \in {k * BatchLimit + r : k \in 0..MaxBatches, r \in {0 - 1, 0, 1}} :
        n >= 0}

InitFix ==
    /\ \E n \in FixSizes, v \in 0..MaxVerified :
           transactions = LegacyLedger(n, v)
    /\ orders = {}
    /\ unlockedNotes = [u \in Users |-> {}]
    /\ minted = 0
    /\ payOrder = [p \in PaymentIds |-> 0]
    /\ calls = EmptyBag
    /\ last = NoResponse
    /\ verifiedPurchases = {}
    /\ fixJob = IdleJob
    /\ NoVisit

\* Runs of fix-unlocked-notes, one after the other, with commits that fail.
NextFix ==
    \/ FixQuery
    \/ FixCommit
    \/ FixCommitFault

SpecFix == InitFix /\ [][NextFix]_vars

\* ------------------------------------------------------------ vocabulary
\* The Transaction documents that record payment p.
TxOf(txs, p) == {d \in txs : d.data.paymentId = p}

\* The Entitlement of user u for the content at noteUrl, read as the access
\* check reads it: userData.unlockedNotes[key].
Granted(unlocked, u, noteUrl) == NoteSlug(noteUrl) \in unlocked[u]

\* The Entitlement of the (userId, contentRef) bound by order o.
OrderGranted(unlocked, o) ==
    /\ DocExists(orders, o)
    /\ Granted(unlocked, DocData(orders, o).userId, DocData(orders, o).noteUrl)

\* No settle call is in progress.
Quiescent(bag) == bag = EmptyBag

\* This step is the one in which the handler of call sends its response.
Returns(call) ==
    /\ call \in InFlight
    /\ calls' = calls (-) SetToBag({call})

\* This step is taken by the handler of call.
Steps(call) ==
    /\ call \in InFlight
    /\ CopiesIn(call, calls') < CopiesIn(call, calls)

\* Another call for the same payment has created the Transaction and has
\* yet to write the Entitlement.
WriterPending(call) ==
    \E other \in InFlight :
        /\ other.paymentId = call.paymentId
        /\ other.pc = "setUser"

\* ------------------------------------------------------------------ C1
\* C1: in every reachable state at most one Transaction document records
\* any one paymentId, however many settle calls of either path have run.
C1_OneTransactionPerPayment ==
    \A p \in PaymentIds : Cardinality(TxOf(transactions, p)) <= 1

\* A second call for payment 1 found the Transaction and was answered.
C1_Witness ==
    /\ last.outcome = "AlreadyFulfilled"
    /\ Cardinality(TxOf(transactions, 1)) = 1

\* ------------------------------------------------------------------ C2
\* C2: when a settle call returns through the already-exists branch and the
\* call that created the Transaction is no longer running (so it either
\* wrote the Entitlement or failed before writing it), the Entitlement of
\* the order's (userId, contentRef) is true on return.
C2_RetryGrantsEntitlement ==
    [][\A call \in InFlight :
          (/\ Returns(call)
           /\ last'.outcome = "AlreadyFulfilled"
           /\ ~WriterPending(call))
          => OrderGranted(unlockedNotes', call.orderId)]_vars

\* ------------------------------------------------------------------ C3
\* C3: whenever no settle call is in progress, the Entitlement of
\* (userId, contentRef) is true exactly when a Transaction with
\* verified = true binds that userId and contentRef.
C3_EntitlementIffVerifiedTransaction ==
    Quiescent(calls) =>
        \A u \in Users, n \in NoteUrls :
            Granted(unlockedNotes, u, n) <=>
                \E d \in transactions :
                    /\ d.data.verified = TRUE
                    /\ d.data.userId = u
                    /\ d.data.noteUrl = n

\* ------------------------------------------------------------------ C4
\* C4: without store failures, every settle call for a valid payment on a
\* stored order, of either path and in any interleaving, is answered with
\* status 200 and success, leaves exactly one Transaction for the payment,
\* and once the last call has returned the Entitlement of the order's
\* (userId, contentRef) is true.
C4_PathOrderIndependence ==
    [][\A call \in InFlight :
          Returns(call) =>
              /\ last'.status = StatusOk
              /\ last'.success
              /\ Cardinality(TxOf(transactions', call.paymentId)) = 1
              /\ (Quiescent(calls') => OrderGranted(unlockedNotes', call.orderId))]_vars

\* The frontend call lost the race for payment 1 and every call has returned.
C4_Witness ==
    /\ Quiescent(calls)
    /\ last.path = "client"
    /\ last.outcome = "AlreadyFulfilled"
    /\ last.status = StatusOk
    /\ Cardinality(TxOf(transactions, 1)) = 1
    /\ OrderGranted(unlockedNotes, payOrder[1])

\* ------------------------------------------------------------------ C5
\* C5: whenever a settle call is answered with success, the Entitlement of
\* its order's (userId, contentRef) is true at that moment, also while
\* another settle call for the same payment is still running.
C5_SuccessMeansGranted ==
    [][\A call \in InFlight :
          (Returns(call) /\ last'.status = StatusOk /\ last'.success)
          => OrderGranted(unlockedNotes', call.orderId)]_vars

\* ------------------------------------------------------------------ C6
\* C6: settlement is idempotent per paymentId.  A step that changes an
\* Entitlement is the write of a call whose create() succeeded; a call gets
\* to that write only in the step that creates the Transaction of its
\* payment, so the write happens once per payment; every call whose create()
\* did not succeed is answered AlreadyFulfilled with status 200 and success
\* and changes no store; exactly one Transaction records the payment of a
\* call that returned, and once every call has returned the Entitlement is
\* true.
C6_IdempotentSettlement ==
    [][/\ (unlockedNotes' # unlockedNotes =>
              \E call \in InFlight : call.pc = "setUser" /\ Returns(call))
       /\ \A call \in BagToSet(calls') :
              (call.pc = "setUser" /\ CopiesIn(call, calls') > CopiesIn(call, calls))
              => (/\ TxOf(transactions, call.paymentId) = {}
                  /\ Cardinality(TxOf(transactions', call.paymentId)) = 1)
       /\ \A call \in InFlight :
              (Returns(call) /\ call.pc = "create")
              => (/\ last'.outcome = "AlreadyFulfilled"
                  /\ last'.status = StatusOk
                  /\ last'.success
                  /\ UNCHANGED <<orders, transactions, unlockedNotes>>)
       /\ \A call \in InFlight :
              Returns(call)
              => (/\ Cardinality(TxOf(transactions', call.paymentId)) = 1
                  /\ (Quiescent(calls') =>
                         OrderGranted(unlockedNotes', call.orderId)))]_vars

\* Payment 1 is recorded once and granted, and the call answered last was a
\* repeat that found the Transaction.
C6_Witness ==
    /\ last.outcome = "AlreadyFulfilled"
    /\ last.success
    /\ Cardinality(TxOf(transactions, 1)) = 1
    /\ OrderGranted(unlockedNotes, payOrder[1])

\* ------------------------------------------------------------------ C7
\* C7: a frontend request of an authenticated user whose signature differs
\* from the keyed hash of orderId|paymentId is answered 400 and changes no
\* store and starts no fulfillment; a Transaction is only ever created by a
\* call whose own signature matched.
C7_SignatureIntegrity ==
    [][/\ \A u \in Users, p \in PaymentIds, o \in OrderIds,
            s \in ClientSignatures :
              (/\ s # GeneratedSignature(o, p)
               /\ ClientRequest(<<"Bearer", u>>, p, o, s, FALSE))
              => (/\ last'.status = StatusBadRequest
                  /\ UNCHANGED <<orders, transactions, unlockedNotes, calls>>)
       /\ (transactions' # transactions =>
              \E call \in InFlight :
                  /\ Steps(call)
                  /\ call.pc = "create"
                  /\ ~call.tampered)]_vars

\* A frontend request with a wrong signature for a stored, paid order was
\* answered 400.
C7_Witness ==
    /\ last.path = "client"
    /\ last.tampered
    /\ last.outcome = "SignatureInvalid"
    /\ last.status = StatusBadRequest
    /\ payOrder[1] # 0
    /\ DocExists(orders, payOrder[1])

\* ------------------------------------------------------------------ C8
\* C8: a frontend request with a valid signature whose authenticated user
\* is not the user the order is bound to is answered 403, creates no
\* Transaction, changes no Entitlement and starts no fulfillment.
C8_OnlyOwnerFulfills ==
    [][\A u \in Users, p \in PaymentIds, o \in OrderIds :
          (/\ DocExists(orders, o)
           /\ DocData(orders, o).userId # u
           /\ ClientRequest(<<"Bearer", u>>, p, o, GeneratedSignature(o, p), FALSE))
          => (/\ last'.status = StatusForbidden
              /\ UNCHANGED <<orders, transactions, unlockedNotes, calls>>)]_vars

\* A validly signed request of another user was answered 403 and nobody
\* holds an Entitlement.
C8_Witness ==
    /\ last.outcome = "UserMismatch"
    /\ last.status = StatusForbidden
    /\ ~last.tampered
    /\ \A u \in Users : unlockedNotes[u] = {}

\* ------------------------------------------------------------------ C9
\* C9: once payment P is fulfilled (its Transaction exists and the
\* Entitlement it binds is true), every step of a webhook delivery for P is
\* its response, with status 200, and leaves the Transactions and every
\* Entitlement unchanged.
PaymentFulfilled(p) ==
    \E d \in TxOf(transactions, p) :
        Granted(unlockedNotes, d.data.userId, d.data.noteUrl)

C9_WebhookReplayIsNoOp ==
    [][\A call \in InFlight :
          (/\ call.path = "webhook"
           /\ PaymentFulfilled(call.paymentId)
           /\ Steps(call))
          => (/\ Returns(call)
              /\ last'.status = StatusOk
              /\ UNCHANGED <<orders, transactions, unlockedNotes>>)]_vars

\* A redelivery for the fulfilled payment 1 is being handled.
C9_Witness ==
    /\ PaymentFulfilled(1)
    /\ \E call \in InFlight : call.path = "webhook" /\ call.paymentId = 1

C11_OrderNotFound ==
    [][/\ \A u \in Users, p \in PaymentIds, o \in OrderIds :
              (/\ ~DocExists(orders, o)
               /\ ClientRequest(<<"Bearer", u>>, p, o, GeneratedSignature(o, p), FALSE))
              => (/\ last'.status = StatusNotFound
                  /\ UNCHANGED <<orders, transactions, unlockedNotes, calls>>)
       /\ \A p \in PaymentIds, o \in OrderIds :
              (/\ ~DocExists(orders, o)
               /\ WebhookRequest("payment.captured", p, o,
                      ExpectedSignature(WebhookBody("payment.captured", p, o)),
                      FALSE))
              => (/\ last'.status = StatusOk
                  /\ ~last'.success
                  /\ UNCHANGED <<orders, transactions, unlockedNotes, calls>>)]_vars

\* The frontend request for a captured payment whose order was never stored
\* was answered 404, and nothing was recorded.
C11_Witness ==
    /\ last.path = "client"
    /\ ~last.tampered
    /\ last.outcome = "OrderNotFound"
    /\ last.status = StatusNotFound
    /\ payOrder[1] # 0
    /\ ~DocExists(orders, payOrder[1])
    /\ transactions = {}

\* ------------------------------------------------------------------ C12
\* C12: on the frontend path of every release, when the write of the
\* Transaction or of the Entitlement fails after the signature was
\* verified, the response is a 500 with verified = true and success = false,
\* never a success response.
C12_WriteFailureReported ==
    [][\A call \in InFlight :
          (/\ call.path # "webhook"
           /\ (UnlockWriteFault(call) \/ PlainWriteFault(call)))
          => (/\ last'.status = StatusServerError
              /\ last'.verified
              /\ ~last'.success)]_vars

\* ------------------------------------------------------------------ C13
\* C13: a create-order request or a frontend settle request whose
\* Authorization header is missing, is not a Bearer token, or carries a
\* token the identity provider rejects is answered 401 and changes no state.
C13_AuthenticationRefused ==
    [][\A h \in RefusedHeaders :
          (CreateOrderRefused(h) \/ ClientRequest(h, 1, 1, Forged, FALSE))
          => (/\ last'.status = StatusUnauthorized
              /\ UNCHANGED <<orders, transactions, unlockedNotes, minted,
                             payOrder, calls>>)]_vars

\* ------------------------------------------------------------------ C14
\* C14: in every step (a settle call of either path, an order creation, a
\* pass of the migration, fix-unlocked-notes) every key that is true in a
\* user's unlockedNotes stays true: writing one Entitlement never removes
\* or resets another key of the same user.
C14_EntitlementsMonotonic ==
    [][\A u \in Users : unlockedNotes[u] \subseteq unlockedNotes'[u]]_vars

\* u1 holds the key written by the server route, the key the migration
\* derived from the same transaction, and the key of a purchase settled by
\* the fulfillment helper.
C14_Witness ==
    /\ LastSegment(EarlierUrl) \in unlockedNotes["u1"]
    /\ ExtractNoteSlug(EarlierUrl) \in unlockedNotes["u1"]
    /\ LastSegment(EarlierUrl) # ExtractNoteSlug(EarlierUrl)
    /\ payOrder[1] # 0
    /\ DocExists(orders, payOrder[1])
    /\ DocData(orders, payOrder[1]).userId = "u1"
    /\ OrderGranted(unlockedNotes, payOrder[1])
    /\ Cardinality(unlockedNotes["u1"]) = 3

\* ------------------------------------------------------------------ C15
\* C15: a Transaction document written by the fulfillment code, which
\* writes verified = true, is in the collection with the same fields after
\* every later step: a settle call of either path that finds it, another
\* order, a pass of the migration and fix-unlocked-notes all leave it as it
\* was written.  No Transaction is ever removed, and of a transaction that
\* predates the verified flag only that flag is ever written.
C15_TransactionsImmutable ==
    [][\A d \in transactions :
          /\ d.data.verified = TRUE => d \in transactions'
          /\ \E e \in transactions' :
                 /\ e.id = d.id
                 /\ e.data = [d.data EXCEPT !.verified = e.data.verified]]_vars

\* A settle call found the Transaction of payment 1 and returned, and the
\* document of the earlier purchase is still in the ledger.
C15_Witness ==
    /\ last.outcome = "AlreadyFulfilled"
    /\ Cardinality(TxOf(transactions, 1)) = 1
    /\ \E d \in transactions : d.data.paymentId = EarlierPaymentId

\* ------------------------------------------------------------------ C16
\* C16: every Transaction whose orderId names a stored Order carries the
\* userId and the note URL of that Order: what is unlocked is read from the
\* Order and not from the request body.
C16_TransactionMatchesOrder ==
    \A d \in transactions :
        DocExists(orders, d.data.orderId) =>
            /\ d.data.userId = DocData(orders, d.data.orderId).userId
            /\ d.data.noteUrl = DocData(orders, d.data.orderId).noteUrl

\* ------------------------------------------------------------------ C17
\* C17: create-order accepts an amount exactly when 500 <= amount <= 5000.
\* Of the requests with a title and a note URL, those with amount 499 or
\* 5001 are answered with a validation error and those with amount 500 or
\* 5000 are never rejected and are answered 200 with the order stored.
C17_AmountBounds ==
    [][\A u \in Users, a \in {499, 500, 5000, 5001},
          t \in NoteTitles \ {NoTitle}, n \in NoteUrls :
          /\ CreateOrderRejected(u, a, t, n) =>
                 /\ (a = 499 \/ a = 5001)
                 /\ last'.outcome = "ValidationError"
                 /\ orders' = orders
          /\ CreateOrder(u, a, t, n) =>
                 /\ (a = 500 \/ a = 5000)
                 /\ last'.status = StatusOk
                 /\ last'.outcome = "OrderCreated"
                 /\ \E d \in orders' \ orders : d.data.amount = a]_vars

\* An order of 5000 is stored and a later request was rejected.
C17_Witness ==
    /\ \E d \in orders : d.data.amount = 5000
    /\ last.path = "create-order"
    /\ last.outcome = "ValidationError"

\* ------------------------------------------------------------------ C18
\* C18: a create-order request of an authenticated user with a missing
\* amount, title or note URL, or with an amount outside 500..5000, is
\* answered 400; the gateway issues no order id, no Order is stored and no
\* Transaction or Entitlement changes.
C18_InvalidOrderRejected ==
    [][\A u \in Users, a \in Amounts, t \in NoteTitles, n \in RequestUrls :
          (/\ (a = 0 \/ t = NoTitle \/ n = NoUrl \/ a < AmountMin \/ a > AmountMax)
           /\ (CreateOrder(u, a, t, n) \/ CreateOrderRejected(u, a, t, n)))
          => (/\ last'.status = StatusBadRequest
              /\ UNCHANGED <<orders, transactions, unlockedNotes, minted,
                             payOrder, calls>>)]_vars

\* A request was rejected by the validation before any order was issued.
C18_Witness ==
    /\ last.path = "create-order"
    /\ last.outcome = "ValidationError"
    /\ last.status = StatusBadRequest
    /\ minted = 0
    /\ orders = {}

\* ------------------------------------------------------------------ C19
\* C19: a create-order call of user U for note URL C that succeeds adds
\* exactly one Order document, under an id no stored Order has and equal to
\* its orderId field, with userId = U, noteUrl = C and status 'created'; it
\* leaves every other Order, the Transactions and the Entitlements unchanged.
C19_OrderCreated ==
    [][\A u \in Users, a \in Amounts, t \in NoteTitles, n \in RequestUrls :
          CreateOrder(u, a, t, n) =>
              /\ \E d \in orders' :
                     /\ ~DocExists(orders, d.id)
                     /\ orders' = orders \cup {d}
                     /\ d.data.orderId = d.id
                     /\ d.data.userId = u
                     /\ d.data.noteUrl = n
                     /\ d.data.status = "created"
              /\ last'.status = StatusOk
              /\ UNCHANGED <<transactions, unlockedNotes>>]_vars

\* A second order was stored beside the one of the earlier purchase.
C19_Witness ==
    /\ last.outcome = "OrderCreated"
    /\ DocExists(orders, EarlierOrderId)
    /\ Cardinality(orders) = 2

\* ------------------------------------------------------------------ C20
\* C20: an Order document that is stored keeps its userId, note URL and
\* amount in every later step: settle calls of either path, redeliveries,
\* further create-order calls, the migration and fix-unlocked-notes.
C20_OrderFieldsImmutable ==
    [][\A d \in orders :
          \E e \in orders' :
              /\ e.id = d.id
              /\ e.data.userId = d.data.userId
              /\ e.data.noteUrl = d.data.noteUrl
              /\ e.data.amount = d.data.amount]_vars

\* The order of the earlier purchase is stored, a later order was created
\* and settled, and a webhook redelivery for it has been answered.
C20_Witness ==
    /\ DocExists(orders, EarlierOrderId)
    /\ DocData(orders, EarlierOrderId).userId = "u1"
    /\ payOrder[1] # 0
    /\ DocExists(orders, payOrder[1])
    /\ PaymentFulfilled(1)
    /\ last.path = "webhook"
    /\ last.outcome = "AlreadyFulfilled"

\* ------------------------------------------------------------------ C25
\* C25: the frontend path checks the signature before it looks the order
\* up: a request of an authenticated user that carries a signature other
\* than the keyed hash of orderId|paymentId is answered 400
\* SignatureInvalid whether or not the order is stored and whoever owns it;
\* a 404 or 403 is only ever the answer to a request whose signature matched.
C25_SignatureBeforeLookup ==
    [][\A u \in Users, p \in PaymentIds, o \in OrderIds,
          s \in ClientSignatures :
          ClientRequest(<<"Bearer", u>>, p, o, s, FALSE) =>
              /\ (s # NoSig /\ s # GeneratedSignature(o, p)) =>
                     /\ last'.status = StatusBadRequest
                     /\ last'.outcome = "SignatureInvalid"
              /\ (last'.path = "client"
                  /\ last'.status \in {StatusNotFound, StatusForbidden}
                  /\ last' # last) =>
                     s = GeneratedSignature(o, p)]_vars

\* A forged signature for an order id that has no Order document was
\* answered 400, not 404.
C25_Witness ==
    /\ last.path = "client"
    /\ last.tampered
    /\ last.outcome = "SignatureInvalid"
    /\ last.status = StatusBadRequest
    /\ orders = {}

\* ------------------------------------------------------------------ C24
\* C24: create-order discloses an order id only in a success response, and
\* only after the Order document of that id is stored; a create-order call
\* whose store write failed discloses no id.  Order documents are never
\* removed, so every disclosed id keeps its Order, and a settle request of
\* either path that names a stored order is never answered OrderNotFound.
C24_DisclosedOrderIsStored ==
    [][/\ \A u \in Users, a \in Amounts, t \in NoteTitles, n \in RequestUrls :
              (CreateOrder(u, a, t, n) \/ CreateOrderStoreFault(u, a, t, n)) =>
                  IF last'.success
                  THEN /\ last'.orderId = GatewayOrderId(minted)
                       /\ DocExists(orders', last'.orderId)
                  ELSE last'.orderId = 0
       /\ \A d \in orders : DocExists(orders', d.id)
       /\ \A u \in Users, p \in PaymentIds, o \in OrderIds :
              (/\ DocExists(orders, o)
               /\ ClientRequest(<<"Bearer", u>>, p, o, GeneratedSignature(o, p), FALSE)
               /\ UNCHANGED calls)
              => last'.outcome # "OrderNotFound"
       /\ \A p \in PaymentIds, o \in OrderIds :
              (/\ DocExists(orders, o)
               /\ WebhookRequest("payment.captured", p, o,
                      ExpectedSignature(WebhookBody("payment.captured", p, o)),
                      FALSE)
               /\ UNCHANGED calls)
              => last'.outcome # "OrderNotFound"]_vars

\* The order id disclosed by create-order was paid and its settle request
\* found the Order and fulfilled it.
C24_Witness ==
    /\ payOrder[1] # 0
    /\ DocExists(orders, payOrder[1])
    /\ last.outcome = "Fulfilled"
    /\ OrderGranted(unlockedNotes, payOrder[1])

\* ------------------------------------------------------------------ C26
\* C26: a webhook request that carries the gateway's signature of its body
\* and whose event type is not payment.captured is answered 200 and leaves
\* the Orders, the Transactions and the Entitlements as they were and
\* starts no fulfillment.
C26_OtherEventAcknowledged ==
    [][\A event \in EventTypes \ {"payment.captured"}, p \in PaymentIds,
          o \in OrderIds :
          WebhookRequest(event, p, o,
                         ExpectedSignature(WebhookBody(event, p, o)), FALSE)
          => (/\ last'.status = StatusOk
              /\ last'.outcome = "OtherEvent"
              /\ UNCHANGED <<orders, transactions, unlockedNotes, calls>>)]_vars

\* The gateway's order.paid event about the stored, paid order was
\* acknowledged, and the payment is not recorded.
C26_Witness ==
    /\ last.path = "webhook"
    /\ ~last.tampered
    /\ last.outcome = "OtherEvent"
    /\ last.status = StatusOk
    /\ payOrder[1] # 0
    /\ DocExists(orders, payOrder[1])
    /\ transactions = {}

\* ------------------------------------------------------------------ C23
\* C23: a confirmation of an authenticated user with the valid signature of
\* its payment is handled by the frontend path whatever the value of an
\* extra x-razorpay-signature header: the step is the step the frontend
\* path takes for that confirmation, and its response is never one of the
\* webhook path.
C23_RoutedByShape ==
    [][\A u \in Users, p \in PaymentIds, xsig \in ExtraHeaders :
          (/\ payOrder[p] # 0
           /\ ConfirmationRequest(<<"Bearer", u>>, p, payOrder[p],
                                  GeneratedSignature(payOrder[p], p), xsig))
          => (/\ ClientRequest(<<"Bearer", u>>, p, payOrder[p],
                               GeneratedSignature(payOrder[p], p), FALSE)
              /\ (last' # last => last'.path = "client"))]_vars

\* ------------------------------------------------------------------ C22
\* C22: when a payment is captured on a stored Order, the gateway keeps
\* redelivering payment.captured and the store writes fail only finitely
\* often, the Entitlement of the Order's (userId, contentRef) is eventually
\* true.
C22_RedeliveryGrants ==
    \A p \in PaymentIds :
        (payOrder[p] # 0 /\ DocExists(orders, payOrder[p]))
            ~> OrderGranted(unlockedNotes, payOrder[p])

\* ------------------------------------------------------------------ C21
\* C21: a check-purchases call, whether its token is accepted or refused,
\* leaves the Orders, the Transactions and the Entitlements as they were;
\* it starts no fulfillment and only sends its response.
C21_LookupIsPureRead ==
    [][\A h \in RefusedHeaders \cup {<<"Bearer", u>> : u \in Users} :
          CheckPurchases(h) =>
              UNCHANGED <<orders, transactions, unlockedNotes, minted,
                          payOrder, calls>>]_vars

\* The lookup reported the note of the fulfilled payment 1.
C21_Witness ==
    /\ last.path = "check-purchases"
    /\ last.status = StatusOk
    /\ last.purchasedNotes = {"unit-2"}
    /\ PaymentFulfilled(1)

\* ------------------------------------------------------------------ C27
\* C27: when a run of fix-unlocked-notes returns its success response,
\* every transaction with status completed has verified = true, and
\* updatedCount plus alreadyVerifiedCount of the response equals the number
\* of completed transactions, which is the totalTransactions it reports; a
\* run started right after a successful one returns without a commit and
\* reports updatedCount 0.
C27_FixRestoresFlags ==
    [][/\ ((FixQuery \/ FixCommit) /\ fixJob'.pc = "idle") =>
              /\ \A d \in CompletedTransactions(transactions') :
                     d.data.verified = TRUE
              /\ last'.success
              /\ last'.updatedCount + last'.alreadyVerifiedCount
                     = Cardinality(CompletedTransactions(transactions'))
              /\ last'.totalTransactions
                     = Cardinality(CompletedTransactions(transactions'))
       /\ (/\ FixQuery
           /\ last.path = "fix-unlocked-notes"
           /\ last.success) =>
              /\ fixJob'.pc = "idle"
              /\ last'.updatedCount = 0
              /\ last'.alreadyVerifiedCount = last.totalTransactions]_vars

\* The second run over a ledger of two batches and one document, all
\* without the flag at first, found them all verified.
C27_Witness ==
    /\ last.path = "fix-unlocked-notes"
    /\ last.success
    /\ last.updatedCount = 0
    /\ last.alreadyVerifiedCount = 2 * BatchLimit + 1
    /\ Cardinality(transactions) = 2 * BatchLimit + 1
    /\ \A d \in transactions : d.data.verified = TRUE

\* ------------------------------------------------------------------ C28
\* C28: every batch fix-unlocked-notes commits holds between 1 and 500
\* updates, none of which an earlier commit of the run has written; when the
\* run returns, the batches committed are exactly the updates it queued,
\* each in one batch, and their number is the updatedCount it reports.  This
\* holds for ledgers of 0, 1, 499, 500, 501, 999, 1000 and 1001 unverified
\* transactions.
Committed(commits) == UNION {commits[i] : i \in 1..Len(commits)}

C28_BatchesWithinLimit ==
    [][/\ FixCommit =>
              /\ fixJob.batch # {}
              /\ Cardinality(fixJob.batch) <= BatchLimit
              /\ fixJob.batch \cap Committed(fixJob.commits) = {}
              /\ fixJob.batch \subseteq fixJob.queued
       /\ (FixCommit /\ fixJob'.pc = "idle") =>
              /\ fixJob.queued = Committed(fixJob.commits) \cup fixJob.batch
              /\ last'.updatedCount = Cardinality(fixJob.queued)
       /\ (FixQuery /\ fixJob'.pc = "idle") => last'.updatedCount = 0]_vars

\* A ledger of exactly two batches: the first is committed, the second is
\* full and awaits its commit, and no document is left.
C28_Witness ==
    /\ fixJob.pc = "commit"
    /\ Len(fixJob.commits) = 1
    /\ Cardinality(fixJob.commits[1]) = BatchLimit
    /\ Cardinality(fixJob.batch) = BatchLimit
    /\ fixJob.rest = {}
    /\ Cardinality(fixJob.queued) = 2 * BatchLimit

\* ------------------------------------------------------------------ C29
\* C29: in the /api routes a verified purchase of user U for note URL N
\* leaves every purchase record of another user or of another note URL as
\* it was, and adds a record when U had none for N; the lookup of U then
\* returns N beside every note URL it returned before.
C29_PurchasesSeparate ==
    [][\A u \in Users, p \in ApiPayments, n \in ApiUrls :
          ApiVerifyPayment(<<"Bearer", u>>, p, p, GeneratedSignature(p, p), n,
                           FALSE)
          => (/\ \A d \in verifiedPurchases :
                     (d.data.userId # u \/ d.data.noteUrl # n)
                         => d \in verifiedPurchases'
              /\ (n \notin UserPurchases(verifiedPurchases, u))
                     => Cardinality(verifiedPurchases')
                            = Cardinality(verifiedPurchases) + 1
              /\ UserPurchases(verifiedPurchases', u)
                     = UserPurchases(verifiedPurchases, u) \cup {n})]_vars

\* ------------------------------------------------------------------ C30
\* C30: for a note that is sold, the access check of either release answers
\* 200 to user U exactly when a payment of U for the note's URL is
\* fulfilled, that is, a Transaction of U binds that URL and the key the
\* fulfillment derives from it is true in U's unlockedNotes.
FulfilledFor(u, noteUrl) ==
    /\ \E d \in transactions : d.data.userId = u /\ d.data.noteUrl = noteUrl
    /\ Granted(unlockedNotes, u, noteUrl)

C30_AccessKeyIsFulfillmentKey ==
    [][\A u \in Users, id \in NoteIds \ FreeNoteIds :
          (\/ SecureNotesFunction(<<"Bearer", u>>, id)
           \/ SecureNotesServer(<<"Bearer", u>>, id))
          => (last'.status = StatusOk <=> FulfilledFor(u, NotesData[id]))]_vars


\* ------------------------------------------------------- page-protection
\* A page that takes every device for registered.
DeviceNotChecked(devices, deviceId) == TRUE

\* devices[deviceId] of the if at line 33.
DeviceRegistered(devices, deviceId) == deviceId \in devices

\* auth.signOut() followed by the redirect to the login entry.
SignedOutTo(p, outcome, url) ==
    [p EXCEPT !.pc = "left", !.user = NoUser, !.outcome = outcome,
              !.location = url]

\* A protected page loads and its script runs auth.onAuthStateChanged(...).
\* firebase-config.js assigns auth only after it awaited the configuration:
\* when the script runs before that, auth is undefined, the statement
\* throws a TypeError and no listener is registered.
PageLoad(user, deviceId, authReady) ==
    /\ page' = [ClosedPage EXCEPT
                   !.pc = IF authReady THEN "listening" ELSE "error",
                   !.user = user, !.deviceId = deviceId,
                   !.location = "protected"]
    /\ UNCHANGED <<orders, transactions, unlockedNotes, minted, payOrder, calls,
                   last, verifiedPurchases, fixJob, userDocs>>

\* The listener is told the sign-in state: with a user it starts
\* checkDeviceAndLoadProfile up to userRef.get(), without one it redirects.
OnAuthStateChanged ==
    /\ page.pc = "listening"
    /\ page' = IF page.user # NoUser
               THEN [page EXCEPT !.pc = "lookup"]
               ELSE [page EXCEPT !.pc = "left", !.location = LoginUrl]
    /\ UNCHANGED <<orders, transactions, unlockedNotes, minted, payOrder, calls,
                   last, verifiedPurchases, fixJob, userDocs>>

\* userRef.get() resolves.  A missing document signs out and throws into the
\* catch block, which signs out and redirects; an unregistered device signs
\* out and redirects; else the profile is rendered and the payment system
\* is initialised when initializePaymentForAuthenticatedUser is a function.
CheckDeviceAndLoadProfile(doc, initializerDefined) ==
    /\ page.pc = "lookup"
    /\ page' =
           IF ~doc.exists
           THEN SignedOutTo(page, "missing", LoginUrl)
           ELSE IF ~DeviceRegistered(doc.devices, page.deviceId)
           THEN SignedOutTo(page, "unregistered", LoginUrl)
           ELSE [page EXCEPT
                    !.pc = "shown", !.outcome = "ok",
                    !.currentUserData = doc,
                    !.payment = IF initializerDefined THEN page.user
                                ELSE NoUser]
    /\ UNCHANGED <<orders, transactions, unlockedNotes, minted, payOrder, calls,
                   last, verifiedPurchases, fixJob, userDocs>>

LookupResolved ==
    \E initializerDefined \in BOOLEAN :
        CheckDeviceAndLoadProfile(userDocs[page.user], initializerDefined)

\* userRef.get() rejects: the catch block signs out and redirects.
LookupRejected ==
    /\ page.pc = "lookup"
    /\ page' = SignedOutTo(page, "failed", LoginUrl)
    /\ UNCHANGED <<orders, transactions, unlockedNotes, minted, payOrder, calls,
                   last, verifiedPurchases, fixJob, userDocs>>

\* The logout button of the rendered profile header.
HandleSignOut ==
    /\ page.pc = "shown"
    /\ page' = SignedOutTo(page, page.outcome, LogoutUrl)
    /\ UNCHANGED <<orders, transactions, unlockedNotes, minted, payOrder, calls,
                   last, verifiedPurchases, fixJob, userDocs>>

\* Visits of protected pages by the users, signed in or not, from either
\* device, whatever their documents hold.
InitPage ==
    /\ userDocs \in [Users -> UserDocs]
    /\ page = ClosedPage
    /\ orders = {}
    /\ transactions = {}
    /\ unlockedNotes = [u \in Users |-> {}]
    /\ minted = 0
    /\ payOrder = [p \in PaymentIds |-> 0]
    /\ calls = EmptyBag
    /\ last = NoResponse
    /\ verifiedPurchases = {}
    /\ fixJob = IdleJob

NextPage ==
    \/ \E user \in Users \cup {NoUser}, deviceId \in DeviceIds,
          authReady \in BOOLEAN :
           PageLoad(user, deviceId, authReady)
    \/ OnAuthStateChanged
    \/ LookupResolved
    \/ LookupRejected
    \/ HandleSignOut

SpecPage == InitPage /\ [][NextPage]_vars

\* ------------------------------------------------------------------ C31
\* The lookup of the page found the document of u with the device of the
\* page registered in it.
DeviceChecked(u) ==
    /\ userDocs[u].exists
    /\ page.deviceId \in userDocs[u].devices

\* The lookup of the page ended in one of the three failures.
CheckFailed == page.outcome \in {"missing", "unregistered", "failed"}

\* C31: in a page load the payment system is initialised only by the step
\* in which the lookup resolved with the document of the signed-in user and
\* the device id of the page registered in it; a lookup that finds no
\* document or not the device, or that fails, signs the user out without
\* initialising the payment system, and nothing initialises it later in
\* that page load.
C31_PaymentAfterDeviceCheck ==
    /\ [](page.payment # NoUser =>
             /\ DeviceChecked(page.payment)
             /\ page.outcome = "ok")
    /\ [](CheckFailed => page.user = NoUser /\ page.payment = NoUser)
    /\ [][/\ (page.payment = NoUser /\ page'.payment # NoUser) =>
                 /\ LookupResolved
                 /\ page'.payment = page.user
                 /\ DeviceChecked(page.user)
          /\ ((LookupResolved /\ ~DeviceChecked(page.user)) \/ LookupRejected)
                 => /\ CheckFailed'
                    /\ page'.user = NoUser
                    /\ page'.location = LoginUrl
                    /\ page'.payment = NoUser]_vars

\* A page on which the payment system was initialised for the signed-in
\* user after the device check passed.
C31_Witness ==
    /\ page.pc = "shown"
    /\ page.payment = page.user
    /\ page.user # NoUser
    /\ DeviceChecked(page.user)

====
